---- MODULE Spec2Model ----
\* A model of src/app.py: the natural-language-to-SQL question pipeline
\* (classifier, extractor, executor, composer) and the Streamlit script that
\* chains them.  Texts are sequences of one-character strings, so that
\* strip/lower/startswith/splitlines/join are computed character by character.
EXTENDS Integers, Sequences, FiniteSets, TLC

VARIABLES
    pc,             \* position of the script run (app.py is re-run per interaction)
    table,          \* rows of the in-memory table email_campaigns behind conn
    user_input,     \* app.py:124
    corrected_input,\* app.py:128
    reply,          \* app.py:129
    sql_query,      \* app.py:132
    engine,         \* what pd.read_sql_query did for the last statement (app.py:79)
    result,         \* app.py:136
    summary,        \* app.py:144
    subject_input,  \* app.py:154
    calls,          \* the requests sent to groq_client and the statements run on conn, in order
    shown,          \* what the script rendered with st.* in this run, in order
    fn, arg, ret    \* a single call of one of the pure string functions

vars == <<pc, table, user_input, corrected_input, reply, sql_query, engine,
          result, summary, subject_input, calls, shown, fn, arg, ret>>

flowVars == <<pc, table, user_input, corrected_input, reply, sql_query, engine,
              result, summary, subject_input, calls, shown>>

fnVars == <<fn, arg, ret>>

-----------------------------------------------------------------------------
\* Bounds of the model.

MaxPieces == 4      \* a text is a concatenation of at most MaxPieces pieces
MaxRows == 6        \* a successful statement returns 0..MaxRows rows

-----------------------------------------------------------------------------
\* Python str primitives, on sequences of characters.

None == "None"

\* str.isspace() on the characters of the modelled alphabet
Whitespace == {" ", "\n", "\r", "\t"}

\* the line boundaries of str.splitlines() within the modelled alphabet
LineBreaks == {"\n", "\r"}

RECURSIVE lstrip(_)
lstrip(s) ==
    IF s # <<>> /\ Head(s) \in Whitespace THEN lstrip(Tail(s)) ELSE s

RECURSIVE rstrip(_)
rstrip(s) ==
    IF s # <<>> /\ s[Len(s)] \in Whitespace
    THEN rstrip(SubSeq(s, 1, Len(s) - 1))
    ELSE s

lower_char(c) ==
    CASE c = "S" -> "s" [] c = "E" -> "e" [] c = "L" -> "l"
      [] c = "C" -> "c" [] c = "T" -> "t" [] c = "F" -> "f"
      [] c = "R" -> "r" [] c = "O" -> "o" [] c = "M" -> "m"
      [] c = "D" -> "d" [] c = "X" -> "x"
      [] OTHER -> c

lower(s) == [i \in 1..Len(s) |-> lower_char(s[i])]

startswith(s, p) == Len(p) <= Len(s) /\ SubSeq(s, 1, Len(p)) = p

endswith(s, p) ==
    Len(p) <= Len(s) /\ SubSeq(s, Len(s) - Len(p) + 1, Len(s)) = p

\* p in s
contains(s, p) ==
    \E i \in 1..(Len(s) - Len(p) + 1) : SubSeq(s, i, i + Len(p) - 1) = p

\* str.splitlines(): split at "\n", "\r" and "\r\n"; no empty last line.
RECURSIVE splitlines_from(_, _, _)
splitlines_from(s, cur, acc) ==
    IF s = <<>>
    THEN IF cur = <<>> THEN acc ELSE Append(acc, cur)
    ELSE IF Head(s) = "\r" /\ Len(s) >= 2 /\ s[2] = "\n"
    THEN splitlines_from(Tail(Tail(s)), <<>>, Append(acc, cur))
    ELSE IF Head(s) \in LineBreaks
    THEN splitlines_from(Tail(s), <<>>, Append(acc, cur))
    ELSE splitlines_from(Tail(s), Append(cur, Head(s)), acc)

splitlines(s) == splitlines_from(s, <<>>, <<>>)

\* sep.join(parts)
RECURSIVE join(_, _)
join(sep, parts) ==
    IF parts = <<>> THEN <<>>
    ELSE IF Len(parts) = 1 THEN parts[1]
    ELSE parts[1] \o sep \o join(sep, Tail(parts))

-----------------------------------------------------------------------------
\* The keyword tuples of is_sql_query and extract_sql_from_text.

kw_select == <<"s", "e", "l", "e", "c", "t">>
kw_with == <<"w", "i", "t", "h">>
kw_insert == <<"i", "n", "s", "e", "r", "t">>
kw_delete == <<"d", "e", "l", "e", "t", "e">>
kw_update == <<"u", "p", "d", "a", "t", "e">>
kw_from == <<"f", "r", "o", "m">>
kw_where == <<"w", "h", "e", "r", "e">>
kw_order_by == <<"o", "r", "d", "e", "r", " ", "b", "y">>
kw_group_by == <<"g", "r", "o", "u", "p", " ", "b", "y">>
kw_limit == <<"l", "i", "m", "i", "t">>

sql_keywords == {kw_select, kw_with, kw_insert, kw_delete, kw_update}

clause_keywords_no_from ==
    {kw_select, kw_with, kw_insert, kw_update, kw_delete,
     kw_where, kw_order_by, kw_group_by, kw_limit}

clause_keywords ==
    {kw_select, kw_with, kw_insert, kw_update, kw_delete,
     kw_from, kw_where, kw_order_by, kw_group_by, kw_limit}

-----------------------------------------------------------------------------
\* is_sql_query (app.py:15-18)

is_sql_query_case_sensitive(text) ==
    LET text_lower == rstrip(lstrip(text))
    IN  \E kw \in sql_keywords :
            startswith(text_lower, kw) \/ contains(text_lower, <<"\n">> \o kw)

is_sql_query_anywhere(text) ==
    LET text_lower == lower(rstrip(lstrip(text)))
    IN  \E kw \in sql_keywords : contains(text_lower, kw)

is_sql_query(text) ==
    LET text_lower == lower(rstrip(lstrip(text)))
    IN  \E kw \in sql_keywords :
            startswith(text_lower, kw) \/ contains(text_lower, <<"\n">> \o kw)

-----------------------------------------------------------------------------
\* extract_sql_from_text (app.py:21-30)

strip(s) == rstrip(lstrip(s))

is_clause_line(line) ==
    \E kw \in clause_keywords : startswith(lower(strip(line)), kw)

extract_sql_untrimmed(text) ==
    LET lines == splitlines(text)
        kept == SelectSeq(lines, is_clause_line)
        sql_query_0 == strip(join(<<" ">>, kept))
    IN  IF ~endswith(sql_query_0, <<";">>)
        THEN sql_query_0 \o <<";">>
        ELSE sql_query_0

extract_sql_always_appends(text) ==
    LET lines == splitlines(text)
        kept == SelectSeq(lines, is_clause_line)
        sql_lines == [i \in 1..Len(kept) |-> strip(kept[i])]
    IN  strip(join(<<" ">>, sql_lines)) \o <<";">>

extract_sql_from_text(text) ==
    LET lines == splitlines(text)
        kept == SelectSeq(lines, is_clause_line)
        sql_lines == [i \in 1..Len(kept) |-> strip(kept[i])]
        sql_query_0 == strip(join(<<" ">>, sql_lines))
    IN  IF ~endswith(sql_query_0, <<";">>)
        THEN sql_query_0 \o <<";">>
        ELSE sql_query_0

-----------------------------------------------------------------------------
\* The texts the model draws: concatenations of at most MaxPieces pieces.

Pieces ==
    { kw_select,
      <<"S", "E", "L", "E", "C", "T">>,
      kw_from,
      kw_delete,
      <<"x">>, <<" ">>, <<"\n">>, <<"\r">>, <<";">> }

RECURSIVE TextsUpTo(_)
TextsUpTo(n) ==
    IF n = 0 THEN {<<>>}
    ELSE LET shorter == TextsUpTo(n - 1)
         IN  shorter \cup {t \o p : t \in shorter, p \in Pieces}

Texts == TextsUpTo(MaxPieces)

-----------------------------------------------------------------------------
\* One call of a pure string function on an arbitrary text.

InitFlowVars ==
    /\ pc = "start"
    /\ table = {}
    /\ user_input = None
    /\ corrected_input = None
    /\ reply = None
    /\ sql_query = None
    /\ engine = None
    /\ result = None
    /\ summary = None
    /\ subject_input = None
    /\ calls = <<>>
    /\ shown = <<>>

InitFn ==
    /\ InitFlowVars
    /\ fn = "input"
    /\ arg \in Texts
    /\ ret = None

CallIsSqlQuery ==
    /\ fn = "input"
    /\ fn' = "is_sql_query"
    /\ ret' = is_sql_query(arg)
    /\ UNCHANGED <<arg, flowVars>>

CallExtract ==
    /\ fn = "input"
    /\ fn' = "extract_sql_from_text"
    /\ ret' = extract_sql_from_text(arg)
    /\ UNCHANGED <<arg, flowVars>>

\* the output of one extraction given to the extractor again
CallExtractAgain ==
    /\ fn = "extract_sql_from_text"
    /\ fn' = "extract_sql_from_text again"
    /\ arg' = ret
    /\ ret' = extract_sql_from_text(ret)
    /\ UNCHANGED flowVars

NextFn == CallIsSqlQuery \/ CallExtract \/ CallExtractAgain

SpecFn == InitFn /\ [][NextFn]_vars

-----------------------------------------------------------------------------
\* The statement execution engine: pd.read_sql_query(query, conn) on the
\* read-write sqlite3 connection of app.py:8.  The SQL itself is not
\* interpreted: the engine's outcome is any outcome sqlite3 and pandas can
\* produce for a statement with that leading keyword.
\*   rows            the statement ran and its rows were read
\*   execute_error   cursor.execute raised (syntax error, no such column, ...)
\*   no_result_set   cursor.execute ran the statement, which yields no result
\*                   set (insert/update/delete, an empty statement); reading
\*                   the columns back raises, after the statement took effect

Loaded == {"row1", "row2"}

\* the table after a data-modifying statement ran on it
WriteEffects(tbl) == {tbl, tbl \ {"row1"}, tbl \cup {"row3"}}

ResultColumns == {<<"subject_line">>, <<"error">>}

RowsOf(n) == [i \in 1..n |-> i]

ExecuteErrors == {"near \"x\": syntax error", "no such column: x"}

NoResultSetError == "'NoneType' object is not iterable"

EngineOutcomes(query, tbl) ==
    LET q == lower(query)
        reads == startswith(q, kw_select) \/ startswith(q, kw_with)
        writes == \/ startswith(q, kw_insert) \/ startswith(q, kw_update)
                  \/ startswith(q, kw_delete) \/ startswith(q, kw_with)
    IN  {[kind |-> "execute_error", error |-> e, table |-> tbl] :
            e \in ExecuteErrors}
        \cup
        (IF reads
         THEN {[kind |-> "rows", columns |-> c, rows |-> RowsOf(n), table |-> tbl] :
                  c \in ResultColumns, n \in 0..MaxRows}
         ELSE {})
        \cup
        (IF writes
         THEN {[kind |-> "no_result_set", error |-> NoResultSetError, table |-> t] :
                  t \in WriteEffects(tbl)}
         ELSE {})
        \cup
        (IF q = <<";">>
         THEN {[kind |-> "no_result_set", error |-> NoResultSetError, table |-> tbl]}
         ELSE {})

-----------------------------------------------------------------------------
\* execute_sql_query (app.py:77-81), given what the engine did

execute_sql_query_catches_execute_errors_only(o) ==
    IF o.kind = "rows"
    THEN [raised |-> FALSE, value |-> [columns |-> o.columns, rows |-> o.rows]]
    ELSE IF o.kind = "execute_error"
    THEN [raised |-> FALSE, value |-> [columns |-> <<"error">>, rows |-> <<o.error>>]]
    ELSE [raised |-> TRUE, value |-> [columns |-> <<>>, rows |-> <<>>]]

execute_sql_query(o) ==
    IF o.kind = "rows"
    THEN [raised |-> FALSE, value |-> [columns |-> o.columns, rows |-> o.rows]]
    ELSE [raised |-> FALSE, value |-> [columns |-> <<"error">>, rows |-> <<o.error>>]]

-----------------------------------------------------------------------------
\* summarize_results (app.py:84-102)

HeadRows == 5

\* the fixed string of line 86, as a text of one piece
Apology == <<"Sorry, I couldn't find a meaningful answer to your question.">>

\* DataFrame.empty: an axis of length 0
df_empty(df) == Len(df.columns) = 0 \/ Len(df.rows) = 0

has_column(df, name) == \E i \in 1..Len(df.columns) : df.columns[i] = name

top_rows_unbounded(result_df) == result_df.rows

\* result_df.head(5).to_dict(orient="records")
top_rows(result_df) ==
    IF Len(result_df.rows) <= HeadRows
    THEN result_df.rows
    ELSE SubSeq(result_df.rows, 1, HeadRows)

\* whether summarize_results returns at line 86, before any request
returns_apology(result_df) == df_empty(result_df) \/ has_column(result_df, "error")

-----------------------------------------------------------------------------
\* The text-generation service (groq_client.chat.completions.create): it
\* answers with one choice, or the call raises.

ServiceTexts == {<<" ", "o", "k">>, <<"o", "k", "\n">>}

Questions == {<<"q">>}

Subjects == {<<"s">>}

Call(name, a) == [fn |-> name, arg |-> a]

Show(kind, value) == [kind |-> kind, value |-> value]

-----------------------------------------------------------------------------
\* The script (app.py:6-9 and 121-160), one run per interaction.

Init ==
    /\ InitFlowVars
    /\ fn = "input"
    /\ arg = <<>>
    /\ ret = None

\* app.py:7-9
Load ==
    /\ pc = "start"
    /\ table' = Loaded
    /\ pc' = "loaded"
    /\ UNCHANGED <<user_input, corrected_input, reply, sql_query, engine,
                   result, summary, subject_input, calls, shown, fnVars>>

\* app.py:122-126
ReadQuestion ==
    /\ pc = "loaded"
    /\ \E text \in Questions \cup {<<>>} :
        /\ user_input' = text
        /\ pc' = IF text # <<>> THEN "question" ELSE "subject"
    /\ shown' = Append(shown, Show("title", "Analytics Vidhya ChatBot"))
    /\ UNCHANGED <<table, corrected_input, reply, sql_query, engine, result,
                   summary, subject_input, calls, fnVars>>

CorrectGrammar_skipped ==
    /\ pc = "question"
    /\ corrected_input' = user_input
    /\ pc' = "corrected"
    /\ UNCHANGED <<table, user_input, reply, sql_query, engine, result,
                   summary, subject_input, calls, shown, fnVars>>

\* app.py:128 and 32-45
CorrectGrammar ==
    /\ pc = "question"
    /\ calls' = Append(calls, Call("correct_grammar", user_input))
    /\ \/ \E content \in ServiceTexts :
            /\ corrected_input' = strip(content)
            /\ pc' = "corrected"
       \/ /\ pc' = "aborted"
          /\ UNCHANGED corrected_input
    /\ UNCHANGED <<table, user_input, reply, sql_query, engine, result,
                   summary, subject_input, shown, fnVars>>

\* app.py:129 and 48-74
GetLLMResponse ==
    /\ pc = "corrected"
    /\ calls' = Append(calls, Call("get_llm_response", corrected_input))
    /\ \/ \E content \in Texts :
            /\ reply' = strip(content)
            /\ pc' = "replied"
       \/ /\ pc' = "aborted"
          /\ UNCHANGED reply
    /\ UNCHANGED <<table, user_input, corrected_input, sql_query, engine,
                   result, summary, subject_input, shown, fnVars>>

\* app.py:131-134
GenerateQuery ==
    /\ pc = "replied"
    /\ is_sql_query(reply)
    /\ sql_query' = extract_sql_from_text(reply)
    /\ shown' = shown \o <<Show("markdown", "### SQL Query Generated"),
                           Show("code", sql_query')>>
    /\ pc' = "extracted"
    /\ UNCHANGED <<table, user_input, corrected_input, reply, engine, result,
                   summary, subject_input, calls, fnVars>>

\* app.py:147-149
DirectAnswer ==
    /\ pc = "replied"
    /\ ~is_sql_query(reply)
    /\ shown' = shown \o <<Show("markdown", "### Direct Answer"),
                           Show("write", reply)>>
    /\ pc' = "subject"
    /\ UNCHANGED <<table, user_input, corrected_input, reply, sql_query,
                   engine, result, summary, subject_input, calls, fnVars>>

\* app.py:136 and 77-81
Execute ==
    /\ pc = "extracted"
    /\ calls' = Append(calls, Call("read_sql_query", sql_query))
    /\ \E o \in EngineOutcomes(sql_query, table) :
        LET r == execute_sql_query(o)
        IN  /\ engine' = o
            /\ table' = o.table
            /\ IF r.raised
               THEN pc' = "aborted" /\ UNCHANGED result
               ELSE pc' = "executed" /\ result' = r.value
    /\ UNCHANGED <<user_input, corrected_input, reply, sql_query, summary,
                   subject_input, shown, fnVars>>

ShowNoResults_through_composer ==
    /\ pc = "executed"
    /\ df_empty(result)
    /\ summary' = Apology
    /\ shown' = shown \o <<Show("markdown", "### Summary"),
                           Show("write", Apology)>>
    /\ pc' = "subject"
    /\ UNCHANGED <<table, user_input, corrected_input, reply, sql_query,
                   engine, result, subject_input, calls, fnVars>>

\* app.py:138-139
ShowNoResults ==
    /\ pc = "executed"
    /\ df_empty(result)
    /\ shown' = Append(shown, Show("warning", "No results found for this query."))
    /\ pc' = "subject"
    /\ UNCHANGED <<table, user_input, corrected_input, reply, sql_query,
                   engine, result, summary, subject_input, calls, fnVars>>

\* app.py:140-146 and 84-102
ShowResult ==
    /\ pc = "executed"
    /\ ~df_empty(result)
    /\ IF returns_apology(result)
       THEN /\ summary' = Apology
            /\ shown' = shown \o <<Show("markdown", "### Query Result"),
                                   Show("dataframe", result),
                                   Show("markdown", "### Summary"),
                                   Show("write", Apology)>>
            /\ pc' = "subject"
            /\ UNCHANGED calls
       ELSE /\ calls' = Append(calls, Call("summarize_results",
                                [prompt |-> user_input, data |-> top_rows(result)]))
            /\ \/ \E content \in ServiceTexts :
                    /\ summary' = strip(content)
                    /\ shown' = shown \o <<Show("markdown", "### Query Result"),
                                           Show("dataframe", result),
                                           Show("markdown", "### Summary"),
                                           Show("write", strip(content))>>
                    /\ pc' = "subject"
               \/ /\ pc' = "aborted"
                  /\ shown' = shown \o <<Show("markdown", "### Query Result"),
                                         Show("dataframe", result)>>
                  /\ UNCHANGED summary
    /\ UNCHANGED <<table, user_input, corrected_input, reply, sql_query,
                   engine, result, subject_input, fnVars>>

\* app.py:152-156
ReadSubject ==
    /\ pc = "subject"
    /\ \E text \in Subjects \cup {<<>>} :
        /\ subject_input' = text
        /\ pc' = IF text # <<>> THEN "advice" ELSE "done"
    /\ shown' = Append(shown, Show("subheader", "Bad Subject Line? Get Suggestions"))
    /\ UNCHANGED <<table, user_input, corrected_input, reply, sql_query,
                   engine, result, summary, calls, fnVars>>

\* app.py:157-160 and 105-119
SuggestImprovement ==
    /\ pc = "advice"
    /\ calls' = Append(calls, Call("suggest_subject_line_improvement", subject_input))
    /\ \/ \E content \in ServiceTexts :
            /\ shown' = shown \o <<Show("markdown", "### Suggestions"),
                                   Show("write", strip(content))>>
            /\ pc' = "done"
       \/ /\ pc' = "aborted"
          /\ UNCHANGED shown
    /\ UNCHANGED <<table, user_input, corrected_input, reply, sql_query,
                   engine, result, summary, subject_input, fnVars>>

\* the next interaction runs the script again from its first line
Rerun ==
    /\ pc \in {"done", "aborted"}
    /\ pc' = "start"
    /\ table' = {}
    /\ user_input' = None
    /\ corrected_input' = None
    /\ reply' = None
    /\ sql_query' = None
    /\ engine' = None
    /\ result' = None
    /\ summary' = None
    /\ subject_input' = None
    /\ calls' = <<>>
    /\ shown' = <<>>
    /\ UNCHANGED fnVars

Next ==
    \/ Load
    \/ ReadQuestion
    \/ CorrectGrammar
    \/ GetLLMResponse
    \/ GenerateQuery
    \/ DirectAnswer
    \/ Execute
    \/ ShowNoResults
    \/ ShowResult
    \/ ReadSubject
    \/ SuggestImprovement
    \/ Rerun

Spec == Init /\ [][Next]_vars

-----------------------------------------------------------------------------
\* Claims about the pure string functions, checked under SpecFn.

C4_Keywords ==
    {kw_select, kw_with, kw_insert, kw_update, kw_delete,
     kw_from, kw_where, kw_order_by, kw_group_by, kw_limit}

C4_Retained(line) ==
    LET t == lower(strip(line))
    IN  \E kw \in C4_Keywords :
            /\ Len(t) >= Len(kw)
            /\ \A j \in 1..Len(kw) : t[j] = kw[j]

\* the retained lines i..Len(ls), trimmed, in line order, with one space
\* between neighbours, put after acc
RECURSIVE C4_Stitch(_, _, _)
C4_Stitch(ls, i, acc) ==
    IF i > Len(ls) THEN acc
    ELSE IF ~C4_Retained(ls[i]) THEN C4_Stitch(ls, i + 1, acc)
    ELSE IF acc = <<>> THEN C4_Stitch(ls, i + 1, strip(ls[i]))
    ELSE C4_Stitch(ls, i + 1, acc \o <<" ">> \o strip(ls[i]))

C4_Expected(text) ==
    LET joined == C4_Stitch(splitlines(text), 1, <<>>)
    IN  IF joined # <<>> /\ joined[Len(joined)] = ";"
        THEN joined
        ELSE joined \o <<";">>

\* C4: extract_sql_from_text returns exactly the lines starting (trimmed,
\* lowercased) with one of the ten clause keywords, each trimmed, in line
\* order, joined by single spaces, with ";" appended unless already there.
C4_ExtractRule ==
    fn = "extract_sql_from_text" => ret = C4_Expected(arg)

\* two clause lines are trimmed, joined by one space, and the delimiter is appended
C4_Witness ==
    /\ fn = "extract_sql_from_text"
    /\ arg = kw_select \o <<" ", "\n">> \o kw_from
    /\ ret = kw_select \o <<" ">> \o kw_from \o <<";">>

C5_MatchesAt(t, i, kw) ==
    /\ i + Len(kw) - 1 <= Len(t)
    /\ \A j \in 1..Len(kw) : lower_char(t[i + j - 1]) = kw[j]

C5_QueryKeywords == {kw_select, kw_with, kw_insert, kw_update, kw_delete}

C5_Begins(t) ==
    \E kw \in C5_QueryKeywords : C5_MatchesAt(strip(t), 1, kw)

C5_OnNewLine(t) ==
    \E i \in 1..Len(t) :
        /\ t[i] = "\n"
        /\ \E kw \in C5_QueryKeywords : C5_MatchesAt(t, i + 1, kw)

C5_NoKeywordAnywhere(t) ==
    \A i \in 1..Len(t) : \A kw \in C5_QueryKeywords : ~C5_MatchesAt(t, i, kw)

\* C5: is_sql_query is true when the text, trimmed and case-insensitively,
\* begins with a query-leading keyword or has one right after a newline, and
\* false when no such keyword occurs anywhere in the text.
C5_Classifier ==
    fn = "is_sql_query" =>
        /\ (C5_Begins(arg) \/ C5_OnNewLine(arg)) => ret = TRUE
        /\ C5_NoKeywordAnywhere(arg) => ret = FALSE

\* an upper-case keyword on the second line of a text that starts with prose
C5_Witness ==
    /\ fn = "is_sql_query"
    /\ arg = <<"x", "\n", "S", "E", "L", "E", "C", "T">>
    /\ ret = TRUE

C6_CleanSingleLine(t) ==
    /\ t # <<>>
    /\ \A i \in 1..Len(t) : t[i] \notin LineBreaks
    /\ t[1] \notin Whitespace
    /\ t[Len(t)] \notin Whitespace
    /\ C4_Retained(t)

\* C6: extracting from an extractor output returns that output; a clean
\* single-line statement comes back unchanged but for an appended ";"; every
\* output ends with ";".
C6_Idempotent ==
    /\ fn = "extract_sql_from_text again" => ret = arg
    /\ fn \in {"extract_sql_from_text", "extract_sql_from_text again"} =>
           (ret # <<>> /\ ret[Len(ret)] = ";")
    /\ (fn = "extract_sql_from_text" /\ C6_CleanSingleLine(arg)) =>
           ret = (IF arg[Len(arg)] = ";" THEN arg ELSE arg \o <<";">>)

\* a second extraction of a statement that already carries its delimiter
C6_Witness ==
    /\ fn = "extract_sql_from_text again"
    /\ arg = kw_select \o <<" ", "x", ";">>
    /\ ret = arg

-----------------------------------------------------------------------------
\* Claims about the script run, checked under Spec.

LastCallIs(name) == calls # <<>> /\ calls[Len(calls)].fn = name

\* C1: execute_sql_query never raises; on any engine failure it returns the
\* one-row table whose single field 'error' holds the description, and on
\* success the engine's rows unchanged.
C1_NeverRaises ==
    LastCallIs("read_sql_query") =>
        /\ pc # "aborted"
        /\ engine.kind = "rows" =>
               result = [columns |-> engine.columns, rows |-> engine.rows]
        /\ engine.kind # "rows" =>
               /\ result.columns = <<"error">>
               /\ result.rows = <<engine.error>>
               /\ engine.error # ""

\* a statement that ran but has no rows to read back
C1_Witness ==
    /\ pc = "executed"
    /\ engine.kind = "no_result_set"
    /\ result = [columns |-> <<"error">>, rows |-> <<NoResultSetError>>]

Summarized ==
    \E i \in 1..Len(shown) :
        shown[i].kind = "markdown" /\ shown[i].value = "### Summary"

SummaryRequests ==
    Cardinality({i \in 1..Len(calls) : calls[i].fn = "summarize_results"})

\* C2: summarize_results returns the apology, with no request sent, exactly
\* when the ResultSet is empty or is the error table of a failed execution;
\* for every other ResultSet it sends one request and returns the trimmed
\* response.
C2_ApologyExactly ==
    Summarized =>
        IF df_empty(result) \/ engine.kind # "rows"
        THEN summary = Apology /\ SummaryRequests = 0
        ELSE /\ SummaryRequests = 1
             /\ \E content \in ServiceTexts : summary = strip(content)

\* C3: the summarization request carries at most 5 rows, the first
\* min(5, n) rows of the ResultSet in their order.
C3_AtMostFiveRows ==
    \A i \in 1..Len(calls) :
        calls[i].fn = "summarize_results" =>
            LET data == calls[i].arg.data
                n == Len(result.rows)
            IN  /\ Len(data) <= 5
                /\ Len(data) = (IF n < 5 THEN n ELSE 5)
                /\ \A j \in 1..Len(data) : data[j] = result.rows[j]

\* a request built from a ResultSet of more than 5 rows
C3_Witness ==
    /\ LastCallIs("summarize_results")
    /\ Len(result.rows) > 5
    /\ Len(calls[Len(calls)].arg.data) = 5

\* C7: after the classify-extract-execute chain the table holds what it held
\* right after loading.
C7_ReadOnly == pc # "start" => table = Loaded

ChainFns ==
    {"correct_grammar", "get_llm_response", "read_sql_query", "summarize_results"}

ServiceFns == {"correct_grammar", "get_llm_response", "summarize_results"}

IsChainCall(c) == c.fn \in ChainFns

ChainNames ==
    LET chain == SelectSeq(calls, IsChainCall)
    IN  [i \in 1..Len(chain) |-> chain[i].fn]

ServiceCallsOfChain ==
    Cardinality({i \in 1..Len(calls) : calls[i].fn \in ServiceFns})

\* C8 as stated: at most three service calls per question, and none of them
\* after the query has been executed.
C8_NoCallAfterExecution ==
    /\ ServiceCallsOfChain <= 3
    /\ \A i \in 1..Len(calls) : \A j \in 1..Len(calls) :
           (i < j /\ calls[i].fn = "read_sql_query") => calls[j].fn \notin ServiceFns

ChainOrder ==
    <<"correct_grammar", "get_llm_response", "read_sql_query", "summarize_results">>

\* C8 amended: the question's chain is, in this order, the grammar
\* correction, the generation, then the local execution, then the
\* summarization; each step only after the one before it, so at most three
\* service calls, the execution after the first two and before the third.
C8_ChainOrder ==
    /\ Len(ChainNames) <= Len(ChainOrder)
    /\ \A i \in 1..Len(ChainNames) : ChainNames[i] = ChainOrder[i]

\* all four steps happened: the summarization request follows the execution
C8_Witness == ChainNames = ChainOrder

QuestionHandled ==
    /\ pc \in {"subject", "advice", "done"}
    /\ \E i \in 1..Len(calls) : calls[i].fn = "read_sql_query"

ZeroRows == engine.kind = "rows" /\ Len(engine.rows) = 0

\* C9 as stated: a query whose execution returns zero rows ends with the
\* Composer's apology written to the user.
C9_ApologyOnZeroRows ==
    (QuestionHandled /\ ZeroRows) =>
        \E i \in 1..Len(shown) :
            shown[i].kind = "write" /\ shown[i].value = Apology

\* C9 amended: a query whose execution returns zero rows ends with the
\* warning "No results found for this query."; the Composer is not called,
\* no summarization request is sent and no summary section is rendered.
C9_WarningOnZeroRows ==
    (QuestionHandled /\ ZeroRows) =>
        /\ \E i \in 1..Len(shown) :
               /\ shown[i].kind = "warning"
               /\ shown[i].value = "No results found for this query."
        /\ ~Summarized
        /\ SummaryRequests = 0

C9_Witness ==
    /\ QuestionHandled
    /\ ZeroRows
    /\ shown[Len(shown)] = [kind |-> "warning",
                            value |-> "No results found for this query."]

C10_QueryKeywords == {kw_select, kw_with, kw_insert, kw_update, kw_delete}

\* C10 as stated: the statement handed to execute_sql_query is never the
\* bare ";" and starts with one of select/with/insert/update/delete.
C10_StartsWithQueryKeyword ==
    pc = "extracted" =>
        /\ sql_query # <<";">>
        /\ \E kw \in C10_QueryKeywords : C5_MatchesAt(sql_query, 1, kw)

\* C10 amended: the statement handed to execute_sql_query is never the bare
\* ";": a line is retained, so it starts with one of the ten clause keywords
\* and holds one of select/with/insert/update/delete somewhere.
C10_RetainsALine ==
    pc = "extracted" =>
        /\ sql_query # <<";">>
        /\ \E i \in 1..Len(splitlines(reply)) : C4_Retained(splitlines(reply)[i])
        /\ \E kw \in C4_Keywords : C5_MatchesAt(sql_query, 1, kw)
        /\ ~C5_NoKeywordAnywhere(sql_query)

\* a reply whose first line is prose starting with "from"
C10_Witness ==
    /\ pc = "extracted"
    /\ reply = kw_from \o <<"\n">> \o kw_select
    /\ sql_query = kw_from \o <<" ">> \o kw_select \o <<";">>

====
